---- MODULE Spec2Model ----
(***************************************************************************)
(* A model of the LaTeX document generator of docs/tex:                    *)
(*   - normalize_text and its helpers (docs/tex/__init__.py),              *)
(*   - the content schema and its loader (models/document_content.py),     *)
(*   - the revision table and the assembler (models/document_config.py),   *)
(*   - the entry point (generate.py).                                      *)
(* A text is a sequence of characters; a character is a one-character      *)
(* string, except the control character U+0000, written NUL, and the       *)
(* backtick, written BQ.                                                   *)
(***************************************************************************)
EXTENDS Integers, Sequences, FiniteSets, TLC

VARIABLES
    input,       \* normalize_text: the argument `text` as passed in
    text,        \* normalize_text: the local `text`, rewritten stage by stage
    links,       \* normalize_text: the list `links` of (display, url)
    latex_cmds,  \* normalize_text: the list `latex_cmds`
    idx,         \* normalize_text: the loop index of the running restore loop
    pc,          \* normalize_text: the stage about to run
    doc,         \* the document sink: what doc.append received, in order
    preamble,    \* what doc.preamble.append received, in order
    err,         \* the exception that ended the run, "none" while there is none
    dpc,         \* the renderer's position
    node,        \* ItemizeContent.execute: self
    item_i,      \* ItemizeContent.execute: the index of the next item
    data,        \* DocumentContent.from_dic: the keyword arguments
    content,     \* DocumentContent.from_dic: doc.content
    rec_i,       \* DocumentContent.from_dic: the index of the next record
    revisions,   \* RevisionEntry.render: the argument revisions
    rev_i,       \* RevisionEntry.render: the index of the next entry
    cfg,         \* main: the parsed doc.yaml
    files,       \* the artifacts directory: file name -> parsed YAML
    stack,       \* the DocumentContent.execute calls in progress, innermost last
    file_i,      \* DocumentConfig.execute: the index of the next content file
    pdf          \* main: whether doc.generate_pdf was called

nvars == <<input, text, links, latex_cmds, idx, pc>>
svars == <<doc, preamble, err, dpc>>
ivars == <<node, item_i>>
lvars == <<data, content, rec_i>>
rvars == <<revisions, rev_i>>
mvars == <<cfg, files, stack, file_i, pdf>>
vars == <<nvars, svars, ivars, lvars, rvars, mvars>>

(***************************************************************************)
(* Characters                                                              *)
(***************************************************************************)
NUL == "NUL"
BSL == "\\"
NL == "\n"
\* the backtick
BQ == "BACKTICK"

Lower ==
    {"a", "b", "c", "d", "e", "f", "g", "h", "i", "j", "k", "l", "m",
     "n", "o", "p", "q", "r", "s", "t", "u", "v", "w", "x", "y", "z"}

Upper ==
    {"A", "B", "C", "D", "E", "F", "G", "H", "I", "J", "K", "L", "M",
     "N", "O", "P", "Q", "R", "S", "T", "U", "V", "W", "X", "Y", "Z"}

\* the class [a-zA-Z] of the macro pattern
IsLetter(c) == c \in Lower \cup Upper

\* the regex dot: any character but a line break
IsDot(c) == c # NL

Reserved == {"#", "$", "_", "&", "%"}

(***************************************************************************)
(* String helpers: str.replace, str(int), searching                        *)
(***************************************************************************)
Min(S) == CHOOSE x \in S : \A y \in S : x <= y

\* the first index >= from at which s holds c, 0 when there is none
FirstIndex(s, c, from) ==
    LET S == {j \in from..Len(s) : s[j] = c}
    IN IF S = {} THEN 0 ELSE Min(S)

IsAt(s, p, i) ==
    /\ i + Len(p) - 1 <= Len(s)
    /\ \A k \in 1..Len(p) : s[i + k - 1] = p[k]

\* the number of places of s at which p starts
Occurrences(s, p) == Cardinality({i \in 1..Len(s) : IsAt(s, p, i)})

Contains(s, p) == \E i \in 1..(Len(s) + 1) : IsAt(s, p, i)

RECURSIVE ReplaceFrom(_, _, _, _)
ReplaceFrom(s, old, new, i) ==
    IF i > Len(s) THEN <<>>
    ELSE IF IsAt(s, old, i) THEN new \o ReplaceFrom(s, old, new, i + Len(old))
    ELSE <<s[i]>> \o ReplaceFrom(s, old, new, i + 1)

\* str.replace(old, new) for a non-empty old: every occurrence, left to right,
\* not overlapping, the replacement not scanned again
str_replace(s, old, new) == ReplaceFrom(s, old, new, 1)

DigitChar(d) == <<"0", "1", "2", "3", "4", "5", "6", "7", "8", "9">>[d + 1]

\* the decimal digits of n, as the f-string formats an int
RECURSIVE IntStr(_)
IntStr(n) == IF n < 10 THEN <<DigitChar(n)>>
             ELSE IntStr(n \div 10) \o <<DigitChar(n % 10)>>

\* the f-string NUL LINK n NUL of _capture_link
LinkToken(n) == <<NUL, "L", "I", "N", "K">> \o IntStr(n) \o <<NUL>>

\* the f-string NUL CMD n NUL of _capture_cmd
CmdToken(n) == <<NUL, "C", "M", "D">> \o IntStr(n) \o <<NUL>>

(***************************************************************************)
(* _escape_latex                                                           *)
(***************************************************************************)
\* _escape_latex without its second replacement
_escape_latex_no_dollar(s) ==
    LET t1 == str_replace(s, <<"#">>, <<BSL, "#">>)
        t3 == str_replace(t1, <<"_">>, <<BSL, "_">>)
        t4 == str_replace(t3, <<"&">>, <<BSL, "&">>)
    IN str_replace(t4, <<"%">>, <<BSL, "%">>)

\* an escape that leaves a reserved character alone when a backslash precedes it
RECURSIVE EscapeUnlessEscaped(_, _)
EscapeUnlessEscaped(s, i) ==
    IF i > Len(s) THEN <<>>
    ELSE (IF s[i] \in {"#", "$", "_", "&", "%"} /\ ~(i > 1 /\ s[i - 1] = BSL)
          THEN <<BSL, s[i]>> ELSE <<s[i]>>)
         \o EscapeUnlessEscaped(s, i + 1)

_escape_latex_once(s) == EscapeUnlessEscaped(s, 1)

_escape_latex(s) ==
    LET t1 == str_replace(s, <<"#">>, <<BSL, "#">>)
        t2 == str_replace(t1, <<"$">>, <<BSL, "$">>)
        t3 == str_replace(t2, <<"_">>, <<BSL, "_">>)
        t4 == str_replace(t3, <<"&">>, <<BSL, "&">>)
    IN str_replace(t4, <<"%">>, <<BSL, "%">>)

(***************************************************************************)
(* _apply_formatting: three re.sub calls, each rewriting a delimited span   *)
(***************************************************************************)
\* the end of the match of delimiter, lazy group, delimiter starting at i (the index of the last
\* character of the closing d), 0 when there is no match at i: the lazy group
\* takes the fewest characters, at least one, none of them a line break
SpanEnd(s, d, i) ==
    IF ~IsAt(s, d, i) THEN 0
    ELSE LET S == {k \in (i + Len(d) + 1)..Len(s) :
                      /\ IsAt(s, d, k)
                      /\ \A j \in (i + Len(d))..(k - 1) : IsDot(s[j])}
         IN IF S = {} THEN 0 ELSE Min(S) + Len(d) - 1

RECURSIVE SubSpan(_, _, _, _)
SubSpan(s, d, name, i) ==
    IF i > Len(s) THEN <<>>
    ELSE LET e == SpanEnd(s, d, i)
         IN IF e = 0 THEN <<s[i]>> \o SubSpan(s, d, name, i + 1)
            ELSE <<BSL>> \o name \o <<"{">>
                 \o SubSeq(s, i + Len(d), e - Len(d)) \o <<"}">>
                 \o SubSpan(s, d, name, e + 1)

_apply_formatting(s) ==
    LET tt == SubSpan(s, <<BQ>>, <<"t", "e", "x", "t", "t", "t">>, 1)
        bf == SubSpan(tt, <<"*", "*">>, <<"t", "e", "x", "t", "b", "f">>, 1)
    IN SubSpan(bf, <<"*">>, <<"t", "e", "x", "t", "i", "t">>, 1)

(***************************************************************************)
(* The link pattern and its re.sub with _capture_link                      *)
(***************************************************************************)
NoMatch == [ok |-> FALSE]

\* the match of the link pattern starting at i
LinkMatch(s, i) ==
    IF s[i] # "[" THEN NoMatch
    ELSE LET j == FirstIndex(s, "]", i + 1)
         IN IF j = 0 \/ j = i + 1 \/ j + 1 > Len(s) THEN NoMatch
            ELSE IF s[j + 1] # "(" THEN NoMatch
            ELSE LET k == FirstIndex(s, ")", j + 2)
                 IN IF k = 0 \/ k = j + 2 THEN NoMatch
                    ELSE [ok |-> TRUE, last |-> k,
                          display |-> SubSeq(s, i + 1, j - 1),
                          url |-> SubSeq(s, j + 2, k - 1)]

\* re.sub(link pattern, _capture_link, s) from index i on, n links captured
\* before: the rewritten text and the links appended, in order
RECURSIVE SubLinks(_, _, _)
SubLinks(s, i, n) ==
    IF i > Len(s) THEN [out |-> <<>>, caps |-> <<>>]
    ELSE LET m == LinkMatch(s, i)
         IN IF m.ok
            THEN LET r == SubLinks(s, m.last + 1, n + 1)
                 IN [out |-> LinkToken(n) \o r.out,
                     caps |-> <<[display |-> m.display, url |-> m.url]>> \o r.caps]
            ELSE LET r == SubLinks(s, i + 1, n)
                 IN [out |-> <<s[i]>> \o r.out, caps |-> r.caps]

(***************************************************************************)
(* The macro pattern and its re.sub with _capture_cmd                      *)
(***************************************************************************)
\* the index of the last character of the macro match starting at i, 0 when
\* there is none
CmdEnd(s, i) ==
    IF s[i] # BSL THEN 0
    ELSE LET nonLetters == {j \in (i + 1)..Len(s) : ~IsLetter(s[j])}
         IN IF nonLetters = {} THEN 0
            ELSE LET j == Min(nonLetters)
                 IN IF j = i + 1 \/ s[j] # "{" THEN 0
                    ELSE FirstIndex(s, "}", j + 1)

RECURSIVE SubCmds(_, _, _)
SubCmds(s, i, n) ==
    IF i > Len(s) THEN [out |-> <<>>, caps |-> <<>>]
    ELSE LET e == CmdEnd(s, i)
         IN IF e # 0
            THEN LET r == SubCmds(s, e + 1, n + 1)
                 IN [out |-> CmdToken(n) \o r.out,
                     caps |-> <<SubSeq(s, i, e)>> \o r.caps]
            ELSE LET r == SubCmds(s, i + 1, n)
                 IN [out |-> <<s[i]>> \o r.out, caps |-> r.caps]

(***************************************************************************)
(* The restore loops of normalize_text                                     *)
(***************************************************************************)
\* one iteration of the loop over latex_cmds (idx counted from 0)
RestoreCmdStep(s, cmds, i) == str_replace(s, CmdToken(i), cmds[i + 1])

\* the f-string of the hyperlink: href, the url in braces, the display in braces
Href(url, display) ==
    <<BSL, "h", "r", "e", "f", "{">> \o url \o <<"}", "{">>
    \o _apply_formatting(_escape_latex(display)) \o <<"}">>

\* one iteration of the loop over links (idx counted from 0)
RestoreLinkStep(s, lks, i) ==
    str_replace(s, LinkToken(i), Href(lks[i + 1].url, lks[i + 1].display))

RECURSIVE RestoreCmds(_, _, _)
RestoreCmds(s, cmds, i) ==
    IF i >= Len(cmds) THEN s
    ELSE RestoreCmds(RestoreCmdStep(s, cmds, i), cmds, i + 1)

RECURSIVE RestoreLinks(_, _, _)
RestoreLinks(s, lks, i) ==
    IF i >= Len(lks) THEN s
    ELSE RestoreLinks(RestoreLinkStep(s, lks, i), lks, i + 1)

\* normalize_text as a function of its argument
normalize_text(s) ==
    LET l == SubLinks(s, 1, 0)
        c == SubCmds(l.out, 1, 0)
        f == _apply_formatting(_escape_latex(c.out))
    IN RestoreLinks(RestoreCmds(f, c.caps, 0), l.caps, 0)

(***************************************************************************)
(* The sink. An entry is what one doc.append call received: a sequence of  *)
(* symbols, each a character of a configured text or one literal fragment  *)
(* of the source code (a fragment is one symbol, so a marker the renderer  *)
(* wrote is told from the same letters typed by the author).               *)
(* A dict is a record; a key it lacks is a key not in its domain.          *)
(***************************************************************************)
Get(d, k, default) == IF k \in DOMAIN d THEN d[k] ELSE default

\* the truth value of an optional string field: set and not empty
Truthy(d, k) == k \in DOMAIN d /\ d[k] # <<>>

ITEM == "\\item "

Whitespace == {" ", NL, "\t"}

\* str.rstrip()
RECURSIVE rstrip(_)
rstrip(s) ==
    IF s = <<>> THEN <<>>
    ELSE IF s[Len(s)] \in Whitespace THEN rstrip(SubSeq(s, 1, Len(s) - 1))
    ELSE s

\* TextContent.execute: the entries appended
TextOut(c) ==
    (IF Truthy(c, "section")
     THEN << <<"\\section{">> \o normalize_text(c.section) \o <<"}">> >>
     ELSE <<>>)
    \o (IF Truthy(c, "subsection")
        THEN << <<"\\subsection{">> \o normalize_text(c.subsection) \o <<"}">> >>
        ELSE <<>>)
    \o (IF Truthy(c, "subsubsection")
        THEN << <<"\\subsubsection{">> \o normalize_text(c.subsubsection)
                \o <<"}">> >>
        ELSE <<>>)
    \o (IF Truthy(c, "label")
        THEN << <<"\\label{">> \o c.label \o <<"}">> >>
        ELSE <<>>)
    \o << normalize_text(Get(c, "text", <<>>)) >>
    \o (IF Get(c, "newline", TRUE)
        THEN << <<"\\par\\vspace{\\baselineskip}">> >>
        ELSE <<>>)

\* VerbatimContent.execute: the entries appended
VerbatimOut(c) ==
    << <<"{\\">> \o Get(c, "font_size", <<"small">>)
       \o <<"\n\\begin{verbatim}\n">> \o c.text \o <<"\n\\end{verbatim}}">> >>
    \o (IF Get(c, "newline", TRUE)
        THEN << <<"\\vspace{\\baselineskip}">> >>
        ELSE <<>>)

\* the fixed-width block of a code part or of a legacy code key
VerbatimBlock(font_size, code) ==
    <<"\\begin{Verbatim}[fontsize=\\">> \o font_size \o <<"]\n">>
    \o rstrip(code) \o <<"\n\\end{Verbatim}\n">>

\* the loop over the parts of one structured item: the entries appended, `first`
\* as the loop holds it
RECURSIVE PartsOut(_, _, _)
PartsOut(parts, font_size, first) ==
    IF parts = <<>> THEN <<>>
    ELSE LET part == Head(parts)
         IN IF "text" \in DOMAIN part
            THEN << (IF first THEN <<ITEM>> ELSE <<>>) \o normalize_text(part.text) >>
                 \o PartsOut(Tail(parts), font_size, FALSE)
            ELSE IF "code" \in DOMAIN part
            THEN << VerbatimBlock(font_size, part.code) >>
                 \o PartsOut(Tail(parts), font_size, FALSE)
            ELSE PartsOut(Tail(parts), font_size, first)

\* one iteration of the loop over self.items. An item is [str |-> text] or
\* [dict |-> the mapping]
ItemOut(item) ==
    IF "dict" \in DOMAIN item
    THEN LET d == item.dict
             parts == Get(d, "parts", <<>>)
             font_size == Get(d, "font_size", <<"small">>)
         IN IF parts # <<>>
            THEN PartsOut(parts, font_size, TRUE)
            ELSE << <<ITEM>> \o normalize_text(Get(d, "text", <<>>)) >>
                 \o (IF Get(d, "code", <<>>) # <<>>
                     THEN << VerbatimBlock(font_size, d.code) >>
                     ELSE <<>>)
    ELSE << <<ITEM>> \o normalize_text(item.str) >>

ItemizeOpen == << <<"\\begin{itemize}[topsep=0pt]">> >>

ItemizeClose(c) ==
    << <<"\\end{itemize}">> >>
    \o (IF Get(c, "newline", TRUE)
        THEN << <<"\\vspace{\\baselineskip}">> >>
        ELSE <<>>)

RECURSIVE ItemsOut(_)
ItemsOut(items) ==
    IF items = <<>> THEN <<>> ELSE ItemOut(Head(items)) \o ItemsOut(Tail(items))

\* ItemizeContent.execute: the entries appended
ItemizeOut(c) == ItemizeOpen \o ItemsOut(c.items) \o ItemizeClose(c)

\* ImageContent.execute: the entries appended
ImageOut(c) ==
    << <<"\\begin{figure}[">> \o Get(c, "placement", <<"htbp">>) \o <<"]">>,
       <<"\\centering", "\n\\includegraphics[width=">>
       \o Get(c, "width", <<"0.8\\textwidth">>) \o <<"]{">> \o c.src \o <<"}">>,
       <<"\\caption{">> \o normalize_text(c.caption) \o <<"}">> >>
    \o (IF Truthy(c, "label")
        THEN << <<"\\label{">> \o c.label \o <<"}">> >>
        ELSE <<>>)
    \o << <<"\\end{figure}">>, <<"\\vspace{\\baselineskip}">> >>

(***************************************************************************)
(* normalize_text, stage by stage                                          *)
(***************************************************************************)
\* the parts of the state an operation under check does not use
IdleNorm ==
    /\ input = <<>> /\ text = <<>> /\ links = <<>> /\ latex_cmds = <<>>
    /\ idx = 0 /\ pc = "idle"

IdleSink == doc = <<>> /\ preamble = <<>> /\ err = "none" /\ dpc = "idle"

IdleItemize == node = [items |-> <<>>] /\ item_i = 0

IdleLoad == data = [content |-> <<>>] /\ content = <<>> /\ rec_i = 0

IdleRev == revisions = <<>> /\ rev_i = 0

IdleMain ==
    /\ cfg = [content |-> <<>>] /\ files = [f \in {} |-> <<>>]
    /\ stack = <<>> /\ file_i = 0 /\ pdf = FALSE

MaxTokens == 3

\* the pieces the checked inputs are built from
Tokens ==
    { <<"a">>, <<"_">>, <<"#", "$", "&", "%">>, <<BSL>>,
      <<"[">>, <<"]", "(", "u", "_", ")">>, <<"[", "a", "]", "(", "u", "_", ")">>,
      <<BSL, "b", "{">>, <<"}">>, <<BSL, "b", "{", "}">>,
      <<"*">>, <<"*", "*">>, <<BQ>>,
      <<"C", "M", "D", "0">>, <<NUL>> }

RECURSIVE Flatten(_)
Flatten(ts) == IF ts = <<>> THEN <<>> ELSE Head(ts) \o Flatten(Tail(ts))

\* three macros with the word CMD0 before the last one
LongInputs ==
    { <<BSL, "a", "{", "}", BSL, "b", "{", "}", "C", "M", "D", "0",
        BSL, "c", "{", "}">> }

Inputs ==
    {Flatten(ts) : ts \in UNION {[1..n -> Tokens] : n \in 0..MaxTokens}}
    \cup LongInputs

NormInit ==
    /\ input \in Inputs
    /\ text = input
    /\ links = <<>>
    /\ latex_cmds = <<>>
    /\ idx = 0
    /\ pc = "capture_links"
    /\ IdleSink /\ IdleItemize /\ IdleLoad /\ IdleRev /\ IdleMain

\* text = re.sub(link pattern, _capture_link, text)
CaptureLinks ==
    /\ pc = "capture_links"
    /\ LET r == SubLinks(text, 1, 0)
       IN /\ text' = r.out
          /\ links' = r.caps
    /\ pc' = "capture_cmds"
    /\ UNCHANGED <<input, latex_cmds, idx, svars, ivars, lvars, rvars, mvars>>

\* text = re.sub(macro pattern, _capture_cmd, text)
CaptureCmds ==
    /\ pc = "capture_cmds"
    /\ LET r == SubCmds(text, 1, 0)
       IN /\ text' = r.out
          /\ latex_cmds' = r.caps
    /\ pc' = "escape_format"
    /\ UNCHANGED <<input, links, idx, svars, ivars, lvars, rvars, mvars>>

\* text = _apply_formatting(_escape_latex(text))
EscapeFormat ==
    /\ pc = "escape_format"
    /\ text' = _apply_formatting(_escape_latex(text))
    /\ pc' = "restore_cmds"
    /\ idx' = 0
    /\ UNCHANGED <<input, links, latex_cmds, svars, ivars, lvars, rvars, mvars>>

\* one iteration of: for idx, cmd in enumerate(latex_cmds)
RestoreCmd ==
    /\ pc = "restore_cmds"
    /\ idx < Len(latex_cmds)
    /\ text' = RestoreCmdStep(text, latex_cmds, idx)
    /\ idx' = idx + 1
    /\ UNCHANGED <<input, links, latex_cmds, pc, svars, ivars, lvars, rvars, mvars>>

\* the loop over latex_cmds is exhausted
CmdsRestored ==
    /\ pc = "restore_cmds"
    /\ idx = Len(latex_cmds)
    /\ pc' = "restore_links"
    /\ idx' = 0
    /\ UNCHANGED <<input, text, links, latex_cmds, svars, ivars, lvars, rvars, mvars>>

\* one iteration of: for idx, (display, url) in enumerate(links)
RestoreLink ==
    /\ pc = "restore_links"
    /\ idx < Len(links)
    /\ text' = RestoreLinkStep(text, links, idx)
    /\ idx' = idx + 1
    /\ UNCHANGED <<input, links, latex_cmds, pc, svars, ivars, lvars, rvars, mvars>>

\* return text
Return ==
    /\ pc = "restore_links"
    /\ idx = Len(links)
    /\ pc' = "done"
    /\ UNCHANGED <<input, text, links, latex_cmds, idx, svars, ivars, lvars, rvars, mvars>>

NormNext ==
    \/ CaptureLinks
    \/ CaptureCmds
    \/ EscapeFormat
    \/ RestoreCmd
    \/ CmdsRestored
    \/ RestoreLink
    \/ Return

Spec == NormInit /\ [][NormNext]_vars

\* the stage machine computes what the function computes
StagesAgree == pc = "done" => text = normalize_text(input)

(***************************************************************************)
(* Properties of normalize_text                                            *)
(***************************************************************************)
Done == pc = "done"

HasReserved(s) == \E i \in 1..Len(s) : s[i] \in Reserved

HasChar(s, C) == \E i \in 1..Len(s) : s[i] \in C

\* every reserved character preceded by one backslash, nothing else touched
RECURSIVE EscapeEach(_)
EscapeEach(s) ==
    IF s = <<>> THEN <<>>
    ELSE (IF Head(s) \in Reserved THEN <<BSL, Head(s)>> ELSE <<Head(s)>>)
         \o EscapeEach(Tail(s))

\* the text holds no link, no macro and no formatting marker: the two scans of
\* this call captured nothing and the argument has no backtick and no asterisk
NoMarkup == links = <<>> /\ latex_cmds = <<>> /\ ~HasChar(input, {"*", BQ})

\* C3: a text with no link, no macro and no formatting marker comes back with
\* each of # $ _ & % preceded by exactly one backslash and every other character
\* in place (a backslash that an earlier replacement wrote is not escaped again);
\* the empty text comes back empty.
C3_EscapesReservedOnly ==
    (Done /\ NoMarkup) =>
        /\ text = EscapeEach(input)
        /\ (input = <<>> => text = <<>>)

\* a text with a backslash of its own, a bracket and a reserved character, escaped
C3_Witness ==
    /\ Done /\ NoMarkup
    /\ HasReserved(input)
    /\ HasChar(input, {BSL})
    /\ Len(text) > Len(input)

\* plain prose: no backslash, brace, link, macro or formatting marker
PlainProse == NoMarkup /\ ~HasChar(input, {BSL, "{", "}"})

\* C8: normalizing the output again changes it exactly when the plain prose holds
\* a reserved character (the second pass escapes it again); with no reserved
\* character the first and the second pass both return the prose itself.
C8_NotIdempotentOnEscaped ==
    (Done /\ PlainProse) =>
        IF HasReserved(input)
        THEN normalize_text(text) # text
        ELSE text = input /\ normalize_text(text) = input

\* plain prose with a reserved character, normalized once
C8_Witness ==
    /\ Done /\ PlainProse
    /\ HasReserved(input)
    /\ Len(input) >= 2
    /\ Len(normalize_text(text)) > Len(text)

(***************************************************************************)
(* Placeholders kept out of band: the same pipeline with each placeholder  *)
(* one symbol that no text can spell. It is what the in-band tokens stand  *)
(* for, and the yardstick for C9.                                          *)
(***************************************************************************)
LinkAtom(n) == <<"LINK#0", "LINK#1", "LINK#2", "LINK#3", "LINK#4", "LINK#5",
                 "LINK#6", "LINK#7", "LINK#8", "LINK#9">>[n + 1]

CmdAtom(n) == <<"CMD#0", "CMD#1", "CMD#2", "CMD#3", "CMD#4", "CMD#5",
                "CMD#6", "CMD#7", "CMD#8", "CMD#9">>[n + 1]

RECURSIVE OobSubLinks(_, _, _)
OobSubLinks(s, i, n) ==
    IF i > Len(s) THEN [out |-> <<>>, caps |-> <<>>]
    ELSE LET m == LinkMatch(s, i)
         IN IF m.ok
            THEN LET r == OobSubLinks(s, m.last + 1, n + 1)
                 IN [out |-> <<LinkAtom(n)>> \o r.out,
                     caps |-> <<[display |-> m.display, url |-> m.url]>> \o r.caps]
            ELSE LET r == OobSubLinks(s, i + 1, n)
                 IN [out |-> <<s[i]>> \o r.out, caps |-> r.caps]

RECURSIVE OobSubCmds(_, _, _)
OobSubCmds(s, i, n) ==
    IF i > Len(s) THEN [out |-> <<>>, caps |-> <<>>]
    ELSE LET e == CmdEnd(s, i)
         IN IF e # 0
            THEN LET r == OobSubCmds(s, e + 1, n + 1)
                 IN [out |-> <<CmdAtom(n)>> \o r.out,
                     caps |-> <<SubSeq(s, i, e)>> \o r.caps]
            ELSE LET r == OobSubCmds(s, i + 1, n)
                 IN [out |-> <<s[i]>> \o r.out, caps |-> r.caps]

\* every placeholder of s replaced by the span stored under its index
RECURSIVE OobRestore(_, _, _)
OobRestore(s, cmds, lks) ==
    IF s = <<>> THEN <<>>
    ELSE LET c == Head(s)
             ci == {n \in 0..(Len(cmds) - 1) : CmdAtom(n) = c}
             li == {n \in 0..(Len(lks) - 1) : LinkAtom(n) = c}
         IN (IF ci # {}
             THEN OobRestore(cmds[(CHOOSE n \in ci : TRUE) + 1], cmds, lks)
             ELSE IF li # {}
             THEN LET l == lks[(CHOOSE n \in li : TRUE) + 1]
                  IN Href(l.url, l.display)
             ELSE <<c>>)
            \o OobRestore(Tail(s), cmds, lks)

OobNormalize(s) ==
    LET l == OobSubLinks(s, 1, 0)
        c == OobSubCmds(l.out, 1, 0)
        f == _apply_formatting(_escape_latex(c.out))
    IN OobRestore(f, c.caps, l.caps)

\* C9, for a text without the control character (the claim is about every text,
\* with or without it): the restore loops replace only the tokens this call
\* inserted, each by the span stored under its index, and no character of the
\* author's, so the result is the one the pipeline gives with its placeholders
\* kept out of band.
C9_SentinelsNeverCollide ==
    (Done /\ ~HasChar(input, {NUL})) => text = OobNormalize(input)

\* C1: every link the scan matched is in the output as the hyperlink construct
\* with its url as captured and its display text escaped and formatted.
C1_EveryLinkBecomesHref ==
    Done => \A i \in 1..Len(links) :
                Contains(text, Href(links[i].url, links[i].display))

\* the macro matches of s: each place where the macro pattern matches, with the
\* place where that match ends
MacroSpans(s) == {sp \in (1..Len(s)) \X (1..Len(s)) : CmdEnd(s, sp[1]) = sp[2]}

\* C2, for a text the link scan matched nothing in: every substring that matches
\* the macro pattern is in the output verbatim, and a text that is one macro comes
\* back unchanged.
C2_MacrosVerbatim ==
    (Done /\ links = <<>>) =>
        /\ \A sp \in MacroSpans(input) :
               Contains(text, SubSeq(input, sp[1], sp[2]))
        /\ (<<1, Len(input)>> \in MacroSpans(input) => text = input)

(***************************************************************************)
(* ItemizeContent.execute, item by item                                    *)
(***************************************************************************)
MaxItems == 2
MaxParts == 2

PartKinds ==
    { [text |-> <<"a", "_">>], [code |-> <<"x", " ">>], [note |-> <<"n">>] }

PartLists == UNION {[1..n -> PartKinds] : n \in 1..MaxParts}

ItemKinds ==
    { [str |-> <<"a", "_">>] }
    \cup { [dict |-> [parts |-> ps]] : ps \in PartLists }
    \cup { [dict |-> [parts |-> <<[code |-> <<"x">>], [text |-> <<"a">>]>>,
                      font_size |-> <<"tiny">>]],
           [dict |-> [text |-> <<"a", "_">>, code |-> <<"x", " ">>]],
           [dict |-> [text |-> <<"a">>]],
           [dict |-> [code |-> <<"x">>, font_size |-> <<"tiny">>]] }

ItemLists == UNION {[1..n -> ItemKinds] : n \in 0..MaxItems}

ItemizeInit ==
    /\ node \in {[items |-> its, newline |-> nl] :
                    its \in ItemLists, nl \in BOOLEAN}
                \cup {[items |-> its] : its \in ItemLists}
    /\ item_i = 0
    /\ doc = <<>> /\ preamble = <<>> /\ err = "none" /\ dpc = "itemize"
    /\ IdleNorm /\ IdleLoad /\ IdleRev /\ IdleMain

\* doc.append of the list opening
ItemizeBegin ==
    /\ dpc = "itemize"
    /\ doc' = doc \o ItemizeOpen
    /\ dpc' = "items"
    /\ UNCHANGED <<preamble, err, nvars, ivars, lvars, rvars, mvars>>

\* one iteration of: for item in self.items
ItemizeItem ==
    /\ dpc = "items"
    /\ item_i < Len(node.items)
    /\ doc' = doc \o ItemOut(node.items[item_i + 1])
    /\ item_i' = item_i + 1
    /\ UNCHANGED <<node, preamble, err, dpc, nvars, lvars, rvars, mvars>>

\* the loop is exhausted: the list closing and the optional spacing
ItemizeEnd ==
    /\ dpc = "items"
    /\ item_i = Len(node.items)
    /\ doc' = doc \o ItemizeClose(node)
    /\ dpc' = "done"
    /\ UNCHANGED <<preamble, err, nvars, ivars, lvars, rvars, mvars>>

ItemizeNext == ItemizeBegin \/ ItemizeItem \/ ItemizeEnd

SpecItemize == ItemizeInit /\ [][ItemizeNext]_vars

\* the steps and the function agree
ItemizeStepsAgree == dpc = "done" => doc = ItemizeOut(node)

\* the number of list markers in a run of entries
RECURSIVE Markers(_)
Markers(es) ==
    IF es = <<>> THEN 0
    ELSE Cardinality({k \in 1..Len(Head(es)) : Head(es)[k] = ITEM})
         + Markers(Tail(es))

\* C4, for an item that emits at least one part: the entries appended for the
\* item hold exactly one list marker, and it is the first symbol of the first of
\* them, whether that part is a text part or a code part.
C4_OneMarkerPerItem ==
    [][item_i' = item_i + 1 =>
          LET new == SubSeq(doc', Len(doc) + 1, Len(doc'))
          IN new # <<>> =>
                /\ Markers(new) = 1
                /\ new[1] # <<>>
                /\ new[1][1] = ITEM]_vars

(***************************************************************************)
(* DocumentContent.from_dic                                                *)
(***************************************************************************)
\* a dict without one of its keys: what is left after pop or del
Without(d, k) == [x \in DOMAIN d \ {k} |-> d[x]]

\* the fields each content class declares without a default
RequiredFields(class) ==
    IF class = "EmbededContent" THEN {"src"}
    ELSE IF class = "ItemizeContent" THEN {"items"}
    ELSE IF class = "ImageContent" THEN {"src", "caption"}
    ELSE IF class = "VerbatimContent" THEN {"text"}
    ELSE {}

\* class(**kw): pydantic raises when a required field is missing
Construct(class, kw) ==
    IF RequiredFields(class) \subseteq DOMAIN kw
    THEN [kind |-> "node", node |-> [class |-> class, kw |-> kw]]
    ELSE [kind |-> "raise", err |-> "ValidationError"]

\* from_dic with no branch for the image discriminator
BuildNode_no_image(c) ==
    IF "type" \notin DOMAIN c THEN [kind |-> "raise", err |-> "KeyError"]
    ELSE LET type == c.type
             kw == Without(c, "type")
         IN IF type = "embed" THEN Construct("EmbededContent", kw)
            ELSE IF type = "paragraph" THEN Construct("TextContent", kw)
            ELSE IF type = "itemize" THEN Construct("ItemizeContent", kw)
            ELSE IF type = "code" THEN Construct("VerbatimContent", kw)
            ELSE [kind |-> "skip"]

\* one iteration of: for c in content
BuildNode(c) ==
    IF "type" \notin DOMAIN c THEN [kind |-> "raise", err |-> "KeyError"]
    ELSE LET type == c.type
             kw == Without(c, "type")
         IN IF type = "embed" THEN Construct("EmbededContent", kw)
            ELSE IF type = "paragraph" THEN Construct("TextContent", kw)
            ELSE IF type = "itemize" THEN Construct("ItemizeContent", kw)
            ELSE IF type = "image" THEN Construct("ImageContent", kw)
            ELSE IF type = "code" THEN Construct("VerbatimContent", kw)
            ELSE [kind |-> "skip"]

\* the loop of from_dic from record i on, nodes built so far
RECURSIVE BuildNodes(_, _, _)
BuildNodes(recs, i, nodes) ==
    IF i > Len(recs) THEN [err |-> "none", content |-> nodes]
    ELSE LET r == BuildNode(recs[i])
         IN IF r.kind = "raise" THEN [err |-> r.err, content |-> nodes]
            ELSE IF r.kind = "node"
            THEN BuildNodes(recs, i + 1, Append(nodes, r.node))
            ELSE BuildNodes(recs, i + 1, nodes)

\* from_dic(**d) as a function: the error raised, or the DocumentContent built
FromDic(d) ==
    IF "content" \notin DOMAIN d THEN [err |-> "KeyError"]
    ELSE LET r == BuildNodes(d.content, 1, <<>>)
         IN IF r.err # "none" THEN [err |-> r.err]
            ELSE [err |-> "none",
                  self |-> [meta |-> Without(d, "content"), content |-> r.content]]

MaxRecords == 3

RecordKinds ==
    { [type |-> "embed", src |-> <<"f2">>], [type |-> "embed"],
      [type |-> "paragraph", text |-> <<"a">>],
      [type |-> "itemize", items |-> <<[str |-> <<"a">>]>>], [type |-> "itemize"],
      [type |-> "image", src |-> <<"i">>, caption |-> <<"c">>],
      [type |-> "image", src |-> <<"i">>],
      [type |-> "code", text |-> <<"x">>], [type |-> "code"],
      [type |-> "table", text |-> <<"a">>],
      [text |-> <<"a">>] }

RecordLists == UNION {[1..n -> RecordKinds] : n \in 0..MaxRecords}

LoadInit ==
    /\ data \in {[content |-> rs] : rs \in RecordLists}
                \cup {[content |-> rs, title |-> <<"T">>] : rs \in RecordLists}
                \cup {[title |-> <<"T">>]}
    /\ content = <<>>
    /\ rec_i = 0
    /\ doc = <<>> /\ preamble = <<>> /\ err = "none" /\ dpc = "from_dic"
    /\ IdleNorm /\ IdleItemize /\ IdleRev /\ IdleMain

\* content = data.get("content", []); del data["content"]; doc = cls(**data)
LoadBegin ==
    /\ dpc = "from_dic"
    /\ IF "content" \in DOMAIN data
       THEN dpc' = "records" /\ err' = err
       ELSE dpc' = "failed" /\ err' = "KeyError"
    /\ UNCHANGED <<doc, preamble, nvars, ivars, lvars, rvars, mvars>>

\* one iteration of: for c in content
LoadRecord ==
    /\ dpc = "records"
    /\ rec_i < Len(data.content)
    /\ LET r == BuildNode(data.content[rec_i + 1])
       IN IF r.kind = "raise"
          THEN /\ err' = r.err
               /\ dpc' = "failed"
               /\ UNCHANGED <<content, rec_i>>
          ELSE /\ content' = IF r.kind = "node" THEN Append(content, r.node)
                             ELSE content
               /\ rec_i' = rec_i + 1
               /\ UNCHANGED <<err, dpc>>
    /\ UNCHANGED <<data, doc, preamble, nvars, ivars, rvars, mvars>>

\* return doc
LoadReturn ==
    /\ dpc = "records"
    /\ rec_i = Len(data.content)
    /\ dpc' = "loaded"
    /\ UNCHANGED <<doc, preamble, err, nvars, ivars, lvars, rvars, mvars>>

LoadNext == LoadBegin \/ LoadRecord \/ LoadReturn

SpecLoad == LoadInit /\ [][LoadNext]_vars

\* the steps and the function agree
LoadStepsAgree ==
    /\ dpc = "loaded" => FromDic(data) = [err |-> "none",
                            self |-> [meta |-> Without(data, "content"),
                                      content |-> content]]
    /\ dpc = "failed" => FromDic(data) = [err |-> err]

\* the five discriminators and the variant each names
ClassOf ==
    [embed |-> "EmbededContent", paragraph |-> "TextContent",
     itemize |-> "ItemizeContent", image |-> "ImageContent",
     code |-> "VerbatimContent"]

IsKnown(c) == "type" \in DOMAIN c /\ c.type \in DOMAIN ClassOf

\* one node per record with a known discriminator, in record order
ExpectedNodes(recs) ==
    LET known == SelectSeq(recs, IsKnown)
    IN [k \in 1..Len(known) |->
           [class |-> ClassOf[known[k].type], kw |-> Without(known[k], "type")]]

\* C5: the content list holds, in record order, one node per record read whose
\* discriminator is one of the five, of the variant it names (while the loop runs
\* and when from_dic returns); a record with another discriminator adds no node
\* and raises nothing: the only record from_dic fails on is one with a known
\* discriminator (a field is missing) or with none.
C5_LoaderBuildsKnownRecords ==
    /\ dpc \in {"records", "loaded"} =>
          content = ExpectedNodes(SubSeq(data.content, 1, rec_i))
    /\ (dpc = "failed" /\ "content" \in DOMAIN data) =>
          LET c == data.content[rec_i + 1]
          IN "type" \notin DOMAIN c \/ c.type \in DOMAIN ClassOf

\* three records read, an unknown one among them, two nodes of different variants
C5_Witness ==
    /\ dpc = "loaded"
    /\ Len(data.content) = 3
    /\ \E k \in 1..3 : data.content[k].type = "table"
    /\ Len(content) = 2
    /\ content[1].class # content[2].class

(***************************************************************************)
(* RevisionEntry.render                                                    *)
(***************************************************************************)
RevHeader ==
    << <<"\\vspace{1em}">>, <<"\n">>,
       <<"\\begin{center}\\textit{Revision History}\\end{center}">>, <<"\n">>,
       <<"\\begin{center}">>, <<"\\small">>,
       <<"\\renewcommand{\\arraystretch}{1.75}">>,
       <<"\\begin{tabular}{@{}rll@{}}">>,
       <<"\\textit{Version} & \\textit{Date} & \\textit{Description} \\\\">>,
       <<"\\hline">> >>

RevFooter ==
    << <<"\\end{tabular}">>, <<"\\end{center}">>, <<"\n">>, <<"\\newpage">> >>

\* the continuation rows of the description lines from the k-th on
RECURSIVE ContinuationRows(_, _)
ContinuationRows(description, k) ==
    IF k > Len(description) THEN <<>>
    ELSE << <<"& & ">> \o normalize_text(description[k]) \o <<" \\\\">> >>
         \o ContinuationRows(description, k + 1)

\* one iteration of: for rev in revisions. description[0] of an empty list
\* raises IndexError
EntryRows(rev) ==
    IF rev.description = <<>> THEN [err |-> "IndexError", out |-> <<>>]
    ELSE [err |-> "none",
          out |-> << <<rev.version, " & ", rev.date, " & ">>
                     \o normalize_text(rev.description[1]) \o <<" \\\\">> >>
                  \o ContinuationRows(rev.description, 2)]

\* the rows of one entry followed by the rows of the later ones
JoinRows(r, rest) == [err |-> rest.err, out |-> r.out \o rest.out]

\* the loop of render from the i-th revision on; an error ends it
RECURSIVE RenderRows(_, _)
RenderRows(revs, i) ==
    IF i > Len(revs) THEN [err |-> "none", out |-> <<>>]
    ELSE IF revs[i].description = <<>> THEN EntryRows(revs[i])
    ELSE JoinRows(EntryRows(revs[i]), RenderRows(revs, i + 1))

\* the table header before the rows, and the footer after them unless an error
\* ended the loop
RenderTable(r) ==
    IF r.err # "none" THEN [err |-> r.err, out |-> RevHeader \o r.out]
    ELSE [err |-> "none", out |-> RevHeader \o r.out \o RevFooter]

\* RevisionEntry.render as a function: the entries appended, and the error that
\* ended it if one did
RenderOut(revs) ==
    IF revs = <<>> THEN [err |-> "none", out |-> <<>>]
    ELSE RenderTable(RenderRows(revs, 1))

MaxRevs == 2
MaxLines == 2

Lines == { <<"a">>, <<"f", "_">> }

Descriptions == UNION {[1..n -> Lines] : n \in 0..MaxLines}

RevKinds ==
    {[version |-> v, date |-> "2024-01-01", description |-> d] :
        v \in {"1.0", "1.1"}, d \in Descriptions}

Histories == UNION {[1..n -> RevKinds] : n \in 0..MaxRevs}

RevInit ==
    /\ revisions \in Histories
    /\ rev_i = 0
    /\ doc = <<>> /\ preamble = <<>> /\ err = "none" /\ dpc = "render"
    /\ IdleNorm /\ IdleItemize /\ IdleLoad /\ IdleMain

\* if revisions: is false
RenderNothing ==
    /\ dpc = "render"
    /\ revisions = <<>>
    /\ dpc' = "rendered"
    /\ UNCHANGED <<doc, preamble, err, nvars, ivars, lvars, rvars, mvars>>

\* the ten appends before the loop
RenderHeader ==
    /\ dpc = "render"
    /\ revisions # <<>>
    /\ doc' = doc \o RevHeader
    /\ dpc' = "rows"
    /\ UNCHANGED <<preamble, err, nvars, ivars, lvars, rvars, mvars>>

\* one iteration of: for rev in revisions
RenderEntry ==
    /\ dpc = "rows"
    /\ rev_i < Len(revisions)
    /\ LET r == EntryRows(revisions[rev_i + 1])
       IN IF r.err # "none"
          THEN /\ err' = r.err
               /\ dpc' = "failed"
               /\ UNCHANGED <<doc, rev_i>>
          ELSE /\ doc' = doc \o r.out
               /\ rev_i' = rev_i + 1
               /\ UNCHANGED <<err, dpc>>
    /\ UNCHANGED <<revisions, preamble, nvars, ivars, lvars, mvars>>

\* the four appends after the loop
RenderFooter ==
    /\ dpc = "rows"
    /\ rev_i = Len(revisions)
    /\ doc' = doc \o RevFooter
    /\ dpc' = "rendered"
    /\ UNCHANGED <<preamble, err, nvars, ivars, lvars, rvars, mvars>>

RevNext == RenderNothing \/ RenderHeader \/ RenderEntry \/ RenderFooter

SpecRev == RevInit /\ [][RevNext]_vars

\* the steps and the function agree
RenderStepsAgree ==
    dpc \in {"rendered", "failed"} => [err |-> err, out |-> doc] = RenderOut(revisions)

\* the rows the table is to hold: for each entry, one row per description line,
\* the first with the version and the date, the others with both left blank
ExpectedRows(revs) ==
    LET RowsOf(rev) ==
            [k \in 1..Len(rev.description) |->
                (IF k = 1 THEN <<rev.version, " & ", rev.date, " & ">>
                 ELSE <<"& & ">>)
                \o normalize_text(rev.description[k]) \o <<" \\\\">>]
        F[i \in 0..Len(revs)] ==
            IF i = 0 THEN <<>> ELSE F[i - 1] \o RowsOf(revs[i])
    IN F[Len(revs)]

\* C6: when render is over, it has raised nothing; for an empty history it has
\* appended nothing, and otherwise the table it appended holds, in history
\* order, exactly one row per description line of every entry.
C6_OneRowPerDescriptionLine ==
    dpc \in {"rendered", "failed"} =>
        /\ err = "none"
        /\ doc = IF revisions = <<>> THEN <<>>
                 ELSE RevHeader \o ExpectedRows(revisions) \o RevFooter

(***************************************************************************)
(* DocumentContent.execute, EmbededContent.execute, DocumentConfig and main *)
(***************************************************************************)
\* str.strip()
RECURSIVE lstrip(_)
lstrip(s) ==
    IF s = <<>> THEN <<>>
    ELSE IF Head(s) \in Whitespace THEN lstrip(Tail(s))
    ELSE s

strip(s) == lstrip(rstrip(s))

\* the execute method of a content node that is not an include
NodeOut(n) ==
    IF n.class = "TextContent" THEN TextOut(n.kw)
    ELSE IF n.class = "VerbatimContent" THEN VerbatimOut(n.kw)
    ELSE IF n.class = "ItemizeContent" THEN ItemizeOut(n.kw)
    ELSE ImageOut(n.kw)

\* DocumentContent.execute before its loop: the optional title and label
ContentHead(meta) ==
    (IF Truthy(meta, "title")
     THEN << <<"\\section{">> \o normalize_text(meta.title) \o <<"}">> >>
     ELSE <<>>)
    \o (IF Truthy(meta, "label")
        THEN << <<"\\label{">> \o meta.label \o <<"}">> >>
        ELSE <<>>)

\* a file that yaml.safe_load cannot turn into a mapping
YamlError == [yaml_error |-> TRUE]

\* open, yaml.safe_load and from_dic with a parse error taken for an empty file
LoadIn_lenient(fs, name) ==
    IF name \notin DOMAIN fs THEN [err |-> "FileNotFoundError"]
    ELSE IF fs[name] = YamlError
    THEN [err |-> "none", self |-> [meta |-> [content |-> <<>>], content |-> <<>>]]
    ELSE FromDic(fs[name])

\* open(ARTIFACT_DIR / name), yaml.safe_load, DocumentContent.from_dic
LoadIn(fs, name) ==
    IF name \notin DOMAIN fs THEN [err |-> "FileNotFoundError"]
    ELSE IF fs[name] = YamlError THEN [err |-> "YAMLError"]
    ELSE FromDic(fs[name])

\* the fields DocumentConfig declares without a default
ConfigRequired ==
    {"title", "author", "affiliation", "output_file", "geometry_options",
     "preamble", "content", "abstract"}

\* DocumentConfig.version
Version(c) ==
    IF c.revision_history # <<>>
    THEN c.revision_history[Len(c.revision_history)].version
    ELSE "0.1.0"

\* datetime.strptime(raw, "%Y-%m-%d").strftime("%B %d, %Y"): the dates it
\* parses, with what it prints; on any other string it raises ValueError
LongDates == [x \in {"2024-01-01"} |-> "January 01, 2024"]

\* DocumentConfig.latest_date
LatestDate(c) ==
    IF c.revision_history # <<>>
    THEN LET raw == c.revision_history[Len(c.revision_history)].date
         IN IF raw \in DOMAIN LongDates
            THEN [err |-> "none", date |-> LongDates[raw]]
            ELSE [err |-> "ValueError"]
    ELSE [err |-> "none", date |-> "\\today"]

\* one author: name|alias becomes the name and a contact, anything else the name
FormatAuthor(c, a) ==
    LET bar == FirstIndex(a, "|", 1)
    IN IF bar # 0
       THEN <<"\\textit{">> \o strip(SubSeq(a, 1, bar - 1)) \o <<"} (">>
            \o strip(SubSeq(a, bar + 1, Len(a)))
            \o (IF Truthy(c, "email_domain") THEN <<"@">> \o c.email_domain
                ELSE <<>>)
            \o <<")">>
       ELSE <<"\\textit{">> \o a \o <<"}">>

RECURSIVE JoinAuthors(_, _)
JoinAuthors(c, as) ==
    IF as = <<>> THEN <<>>
    ELSE FormatAuthor(c, Head(as))
         \o (IF Tail(as) = <<>> THEN <<>> ELSE <<" \\\\ ">>)
         \o JoinAuthors(c, Tail(as))

\* the preamble appends of execute and create_page_title that come before the
\* date
PreambleHead(c) ==
    [k \in 1..Len(c.preamble) |-> c.preamble[k]]
    \o << <<"\\fancyhead[L]{\\small \\textit{">> \o c.title \o <<"}}">>,
          <<"maketitle_def">>,
          <<"\\title{">> \o c.title \o <<"}">>,
          <<"\\author{">> \o JoinAuthors(c, c.author) \o <<"}">> >>

DateCommand(c, date) ==
    <<"\\date{", "{\\large \\textit{">> \o c.affiliation
    \o <<"}}\\\\[2em]\\textit{", date, "}\\\\[0.5em]\\textit{Version ",
         Version(c), "}", "}">>

\* the body appends of execute up to the end of the abstract
BodyHead(c) ==
    << <<"\\maketitle">>, <<"\\thispagestyle{empty}">>,
       <<"\\begin{abstract}\\itshape">>,
       normalize_text(strip(c.abstract)),
       <<"\\end{abstract}">> >>

TocEntries == << <<"\\newpage">>, <<"\\tableofcontents">>, <<"\\newpage">> >>

\* the depth of nested execute calls at which Python gives up (RecursionError)
MaxDepth == 3

MaxFileRecords == 3

F1 == <<"f1">>
F2 == <<"f2">>

MainRecords ==
    { [type |-> "paragraph", text |-> <<"a", "_">>],
      [type |-> "embed", src |-> F2],
      [type |-> "table", text |-> <<"t">>],
      [type |-> "code"] }

MainBodies ==
    {[content |-> rs] :
        rs \in UNION {[1..n -> MainRecords] : n \in 0..MaxFileRecords}}
    \cup { YamlError,
           [title |-> <<"T">>, label |-> <<"s">>,
            content |-> <<[type |-> "embed", src |-> F2]>>] }

IncludeBodies ==
    { YamlError,
      [content |-> <<>>],
      [content |-> <<[type |-> "code", text |-> <<"x">>]>>],
      [content |-> <<[type |-> "image", src |-> <<"i">>]>>],
      [content |-> <<[type |-> "embed", src |-> F2]>>],
      [content |-> <<[type |-> "embed", src |-> F1]>>],
      [title |-> <<"U">>,
       content |-> <<[type |-> "itemize", items |-> <<[str |-> <<"b">>]>>,
                      newline |-> FALSE]>>] }

FileSystems ==
    UNION {{[n \in {F1, F2} |-> IF n = F1 THEN b1 ELSE b2] :
             b1 \in MainBodies} : b2 \in IncludeBodies}
    \cup {[n \in {F1} |-> b1] : b1 \in MainBodies}

HistoryChoices ==
    { <<>>,
      <<[version |-> "1.0", date |-> "2024-01-01",
         description |-> <<<<"a">>, <<"f", "_">>>>]>>,
      <<[version |-> "1.0", date |-> "2024-01-01", description |-> <<>>]>>,
      <<[version |-> "1.0", date |-> "soon", description |-> <<<<"a">>>>]>> }

BaseConfig ==
    [title |-> <<"D">>, author |-> << <<"n", " ", "|", "m">>, <<"o">> >>,
     affiliation |-> <<"A">>, email_domain |-> <<"e">>, output_file |-> <<"out">>,
     geometry_options |-> [top |-> "1in", bottom |-> "1in", left |-> "1in",
                           right |-> "1in"],
     preamble |-> << <<"\\usepackage{hyperref}">> >>,
     abstract |-> <<" ", "a", "%", " ">>]

Configs ==
    UNION {{[k \in DOMAIN BaseConfig \cup {"content", "revision_history"} |->
                IF k = "content" THEN cs
                ELSE IF k = "revision_history" THEN h
                ELSE BaseConfig[k]] :
             cs \in {<<F1>>, <<F1, F2>>, <<F2, F1>>}} : h \in HistoryChoices}

\* a doc.yaml without its abstract
BadConfig == Without(CHOOSE c \in Configs : TRUE, "abstract")

MainInit ==
    /\ \/ cfg \in Configs /\ files \in FileSystems
       \/ cfg = BadConfig /\ files = [n \in {F1} |-> [content |-> <<>>]]
    /\ stack = <<>>
    /\ file_i = 0
    /\ pdf = FALSE
    /\ doc = <<>> /\ preamble = <<>> /\ err = "none" /\ dpc = "main"
    /\ IdleNorm /\ IdleItemize /\ IdleLoad /\ IdleRev

\* main: cfg = DocumentConfig(**yaml.safe_load(f)), then cfg.execute() begins
MainLoadConfig ==
    /\ dpc = "main"
    /\ IF ConfigRequired \subseteq DOMAIN cfg
       THEN dpc' = "head" /\ err' = err
       ELSE dpc' = "failed" /\ err' = "ValidationError"
    /\ UNCHANGED <<doc, preamble, nvars, ivars, lvars, rvars, mvars>>

\* execute up to the abstract: the preamble, create_page_title, the abstract
ExecHead ==
    /\ dpc = "head"
    /\ LET d == LatestDate(cfg)
       IN IF d.err # "none"
          THEN /\ preamble' = preamble \o PreambleHead(cfg)
               /\ err' = d.err
               /\ dpc' = "failed"
               /\ doc' = doc
          ELSE /\ preamble' = preamble \o PreambleHead(cfg)
                               \o <<DateCommand(cfg, d.date)>>
               /\ doc' = doc \o BodyHead(cfg)
               /\ dpc' = "revisions"
               /\ err' = err
    /\ UNCHANGED <<nvars, ivars, lvars, rvars, mvars>>

\* RevisionEntry.render(doc, self.revision_history)
ExecRevisions ==
    /\ dpc = "revisions"
    /\ LET r == RenderOut(cfg.revision_history)
       IN /\ doc' = doc \o r.out
          /\ err' = r.err
          /\ dpc' = IF r.err # "none" THEN "failed" ELSE "toc"
    /\ UNCHANGED <<preamble, nvars, ivars, lvars, rvars, mvars>>

\* the page break, the table of contents, the page break
ExecToc ==
    /\ dpc = "toc"
    /\ doc' = doc \o TocEntries
    /\ dpc' = "files"
    /\ UNCHANGED <<preamble, err, nvars, ivars, lvars, rvars, mvars>>

\* one iteration of: for cnt in self.content, up to the loop of content.execute
OpenFile ==
    /\ dpc = "files"
    /\ stack = <<>>
    /\ file_i < Len(cfg.content)
    /\ LET r == LoadIn(files, cfg.content[file_i + 1])
       IN IF r.err # "none"
          THEN /\ err' = r.err
               /\ dpc' = "failed"
               /\ UNCHANGED <<doc, stack>>
          ELSE /\ doc' = doc \o ContentHead(r.self.meta)
               /\ stack' = <<[self |-> r.self, i |-> 0]>>
               /\ UNCHANGED <<err, dpc>>
    /\ UNCHANGED <<preamble, cfg, files, file_i, pdf, nvars, ivars, lvars, rvars>>

Top == stack[Len(stack)]

NextNode == Top.self.content[Top.i + 1]

Advance == [stack EXCEPT ![Len(stack)].i = @ + 1]

\* cnt.execute(doc) for a node that is not an include
ExecNode ==
    /\ dpc = "files"
    /\ stack # <<>>
    /\ Top.i < Len(Top.self.content)
    /\ NextNode.class # "EmbededContent"
    /\ doc' = doc \o NodeOut(NextNode)
    /\ stack' = Advance
    /\ UNCHANGED <<preamble, err, dpc, cfg, files, file_i, pdf,
                   nvars, ivars, lvars, rvars>>

\* EmbededContent.execute up to the loop of the nested execute
ExecEmbed ==
    /\ dpc = "files"
    /\ stack # <<>>
    /\ Top.i < Len(Top.self.content)
    /\ NextNode.class = "EmbededContent"
    /\ LET r == LoadIn(files, NextNode.kw.src)
       IN IF r.err # "none"
          THEN /\ err' = r.err
               /\ dpc' = "failed"
               /\ UNCHANGED <<doc, stack>>
          ELSE IF Len(stack) >= MaxDepth
          THEN /\ err' = "RecursionError"
               /\ dpc' = "failed"
               /\ UNCHANGED <<doc, stack>>
          ELSE /\ doc' = doc \o ContentHead(r.self.meta)
               /\ stack' = Append(Advance, [self |-> r.self, i |-> 0])
               /\ UNCHANGED <<err, dpc>>
    /\ UNCHANGED <<preamble, cfg, files, file_i, pdf, nvars, ivars, lvars, rvars>>

\* the loop of a DocumentContent.execute is exhausted: the call returns
ContentReturn ==
    /\ dpc = "files"
    /\ stack # <<>>
    /\ Top.i = Len(Top.self.content)
    /\ stack' = SubSeq(stack, 1, Len(stack) - 1)
    /\ file_i' = IF Len(stack) = 1 THEN file_i + 1 ELSE file_i
    /\ UNCHANGED <<doc, preamble, err, dpc, cfg, files, pdf,
                   nvars, ivars, lvars, rvars>>

\* return doc
ExecReturn ==
    /\ dpc = "files"
    /\ stack = <<>>
    /\ file_i = Len(cfg.content)
    /\ dpc' = "generate"
    /\ UNCHANGED <<doc, preamble, err, nvars, ivars, lvars, rvars, mvars>>

\* main after execute: the stale state file removed, doc.generate_pdf called
GeneratePdf ==
    /\ dpc = "generate"
    /\ pdf' = TRUE
    /\ dpc' = "done"
    /\ UNCHANGED <<doc, preamble, err, cfg, files, stack, file_i,
                   nvars, ivars, lvars, rvars>>

MainNext ==
    \/ MainLoadConfig
    \/ ExecHead
    \/ ExecRevisions
    \/ ExecToc
    \/ OpenFile
    \/ ExecNode
    \/ ExecEmbed
    \/ ContentReturn
    \/ ExecReturn
    \/ GeneratePdf

SpecDoc == MainInit /\ [][MainNext]_vars

(***************************************************************************)
(* The content files a run reads                                           *)
(***************************************************************************)
\* the records of a file as written, none if the file cannot be read as a list
RawRecords(name) ==
    IF name \in DOMAIN files /\ files[name] # YamlError
       /\ "content" \in DOMAIN files[name]
    THEN files[name].content
    ELSE <<>>

\* the files a file names in its include records
Includes(name) ==
    LET recs == RawRecords(name)
    IN {recs[k].src : k \in {j \in 1..Len(recs) :
                                /\ IsKnown(recs[j])
                                /\ recs[j].type = "embed"
                                /\ "src" \in DOMAIN recs[j]}}

RECURSIVE Closure(_)
Closure(S) ==
    LET T == S \cup UNION {Includes(n) : n \in S}
    IN IF T = S THEN S ELSE Closure(T)

\* the top-level content files and every file included from them
Reachable == Closure({cfg.content[k] : k \in 1..Len(cfg.content)})

Acyclic == \A n \in Reachable : n \notin Closure(Includes(n))

\* the file exists, parses, has a content list, and each record has a
\* discriminator and, when it is one of the five, the fields of its variant
WellFormed(name) ==
    /\ name \in DOMAIN files
    /\ files[name] # YamlError
    /\ "content" \in DOMAIN files[name]
    /\ \A k \in 1..Len(files[name].content) :
          LET r == files[name].content[k]
          IN /\ "type" \in DOMAIN r
             /\ r.type \in DOMAIN ClassOf =>
                    RequiredFields(ClassOf[r.type]) \subseteq DOMAIN r

LoadErrors == {"YAMLError", "ValidationError", "KeyError"}

\* C7 as stated: a run that fails on a malformed or invalid content file fails
\* before anything has been appended to the sink, and the renderer is not
\* invoked.
C7_FailsBeforeAnyOutput ==
    (dpc = "failed" /\ err \in LoadErrors) => (doc = <<>> /\ ~pdf)

\* C7: a load that fails on a malformed or invalid content file appends nothing
\* and ends the run in failure; after an error no step is taken, so nothing
\* handles it and the renderer is not invoked; and the renderer is invoked only
\* when no error was raised and every content file, top-level or included, is
\* well-formed. (What was appended before the failing load stays in the sink.)
C7_LoadFailureAbortsRun ==
    [][ /\ (err = "none" /\ err' \in LoadErrors) =>
              (doc' = doc /\ dpc' = "failed" /\ ~pdf')
        /\ err # "none" => UNCHANGED vars
        /\ pdf' => (err' = "none" /\ \A n \in Reachable : WellFormed(n)) ]_vars

\* an included file failed to load after output had been appended
C7_Witness ==
    /\ dpc = "failed"
    /\ err \in LoadErrors
    /\ stack # <<>>
    /\ doc # <<>>
    /\ ~pdf

(***************************************************************************)
(* Document order                                                          *)
(***************************************************************************)
\* the output of a content file: its title and label, then its records in list
\* order, an include replaced by the output of the file it names
RECURSIVE FileDoc(_)
FileDoc(name) ==
    LET d == files[name]
        recs == SelectSeq(d.content, IsKnown)
        RecDoc(r) ==
            IF r.type = "embed" THEN FileDoc(r.src)
            ELSE NodeOut([class |-> ClassOf[r.type], kw |-> Without(r, "type")])
        F[i \in 0..Len(recs)] ==
            IF i = 0 THEN <<>> ELSE F[i - 1] \o RecDoc(recs[i])
    IN ContentHead(Without(d, "content")) \o F[Len(recs)]

ExpectedDoc ==
    LET G[i \in 0..Len(cfg.content)] ==
            IF i = 0 THEN <<>> ELSE G[i - 1] \o FileDoc(cfg.content[i])
    IN BodyHead(cfg)
       \o (IF cfg.revision_history = <<>> THEN <<>>
           ELSE RevHeader \o ExpectedRows(cfg.revision_history) \o RevFooter)
       \o TocEntries
       \o G[Len(cfg.content)]

DatesParse ==
    \A k \in 1..Len(cfg.revision_history) :
        cfg.revision_history[k].date \in DOMAIN LongDates

\* C10: for a valid configuration whose include graph is acyclic and whose
\* content files are all well-formed, execute ends without an error and the
\* sink then holds the abstract, the revision table if any, the table of
\* contents, and the output of every top-level content file in the configured
\* order, each include rendered in place.
C10_DocumentOrder ==
    (/\ dpc \in {"generate", "done", "failed"}
     /\ ConfigRequired \subseteq DOMAIN cfg
     /\ DatesParse
     /\ Acyclic
     /\ \A n \in Reachable : WellFormed(n))
    => (dpc # "failed" /\ doc = ExpectedDoc)

====
